---- MODULE Spec2Model ----
(***************************************************************************)
(* Model of the JetBrains-projects launcher plugin (src/__init__.py).      *)
(*                                                                         *)
(* Strings are sequences of tokens.  A path string is the sequence of its  *)
(* segments, a configuration directory name is a sequence of characters    *)
(* (prefix matching and lexicographic sorting work on characters), a       *)
(* timestamp attribute value is a sequence of characters.                  *)
(***************************************************************************)
EXTENDS Integers, Sequences, FiniteSets, TLC

VARIABLES
    phase,       \* "startup" before Plugin.__init__ has run, "ready" after
    installed,   \* the executable names shutil.which finds at startup
    editors,     \* Plugin.editors: the active registry
    match_path,  \* Plugin._match_path
    store,       \* the host configuration store's value for key match_path
    fuzzy,       \* Plugin.fuzzy
    cfg,         \* config root: directory -> recent-projects file content
    exists,      \* project paths that exist on the file system
    iml,         \* project path -> listing of <path>/.idea/*.iml
    ret,         \* outcome of the query being answered by Plugin.items
    matches,     \* Plugin.items' local list `matches`, after the sort
    ide,         \* receiver of the last JetBrainsIde.list_projects call
    lp,          \* outcome of the last JetBrainsIde.list_projects call
    entriesIn,   \* argument of the last _parse_project_entries call
    parsed       \* outcome of the last _parse_project_entries call

vars == <<phase, installed, editors, match_path, store, fuzzy, cfg, exists,
          iml, ret, matches, ide, lp, entriesIn, parsed>>

None == "None"

\* ------------------------------------------------------------------ bounds
MaxDelta == 2        \* installed differs from none/all by at most this many names
MaxDirs == 2         \* config directories present at once (SpecList)
MaxEntries == 1      \* entries per recent-projects file (SpecList)
MaxParseEntries == 2 \* entries handed to _parse_project_entries (SpecParse)
MaxQueryEntries == 2 \* entries per recent-projects file (Spec)

\* ----------------------------------------------------------------- strings
\* Characters in ascending code-point order.
Alphabet ==
    <<".", "0", "1", "2", "3", "4", "5", "6", "7", "8", "9",
      "A", "B", "C", "D", "E", "F", "G", "H", "I", "J", "K", "L", "M",
      "N", "O", "P", "Q", "R", "S", "T", "U", "V", "W", "X", "Y", "Z",
      "a", "b", "c", "d", "e", "f", "g", "h", "i", "j", "k", "l", "m",
      "n", "o", "p", "q", "r", "s", "t", "u", "v", "w", "x", "y", "z">>

Ord(c) == CHOOSE i \in DOMAIN Alphabet : Alphabet[i] = c

\* str.__lt__: lexicographic order by code point.
RECURSIVE StrLess(_, _)
StrLess(a, b) ==
    IF b = <<>> THEN FALSE
    ELSE IF a = <<>> THEN TRUE
    ELSE IF Ord(Head(a)) # Ord(Head(b)) THEN Ord(Head(a)) < Ord(Head(b))
    ELSE StrLess(Tail(a), Tail(b))

\* str.startswith, as the glob pattern "<prefix>*" applies it.
StartsWith(s, p) == Len(p) <= Len(s) /\ SubSeq(s, 1, Len(p)) = p

S_AndroidStudio == <<"A","n","d","r","o","i","d","S","t","u","d","i","o">>
S_Aqua == <<"A","q","u","a">>
S_CLion == <<"C","L","i","o","n">>
S_DataGrip == <<"D","a","t","a","G","r","i","p">>
S_DataSpell == <<"D","a","t","a","S","p","e","l","l">>
S_GoLand == <<"G","o","L","a","n","d">>
S_IntelliJIdea == <<"I","n","t","e","l","l","i","J","I","d","e","a">>
S_Idea == <<"I","d","e","a">>
S_PhpStorm == <<"P","h","p","S","t","o","r","m">>
S_PyCharm == <<"P","y","C","h","a","r","m">>
S_Rider == <<"R","i","d","e","r">>
S_RubyMine == <<"R","u","b","y","M","i","n","e">>
S_RustRover == <<"R","u","s","t","R","o","v","e","r">>
S_WebStorm == <<"W","e","b","S","t","o","r","m">>
S_Writerside == <<"W","r","i","t","e","r","s","i","d","e">>

\* A config_dir_prefixes element "<parent>/<stem>".
Prefix(parent, stem) == [parent |-> parent, stem |-> stem]

\* ---------------------------------------------------------------- registry
\* The arguments of the constructor calls in get_editors, in table order.
Table ==
    << [cls |-> "JetBrainsIde", name |-> "Android Studio", icon |-> "androidstudio.svg",
        config_dir_prefixes |-> <<Prefix("Google", S_AndroidStudio)>>,
        binaries |-> <<"studio", "androidstudio", "android-studio", "android-studio-canary",
                       "jdk-android-studio", "android-studio-system-jdk">>],
       [cls |-> "JetBrainsIde", name |-> "Aqua", icon |-> "aqua.svg",
        config_dir_prefixes |-> <<Prefix("JetBrains", S_Aqua)>>,
        binaries |-> <<"aqua", "aqua-eap">>],
       [cls |-> "JetBrainsIde", name |-> "CLion", icon |-> "clion.svg",
        config_dir_prefixes |-> <<Prefix("JetBrains", S_CLion)>>,
        binaries |-> <<"clion", "clion-eap">>],
       [cls |-> "JetBrainsIde", name |-> "DataGrip", icon |-> "datagrip.svg",
        config_dir_prefixes |-> <<Prefix("JetBrains", S_DataGrip)>>,
        binaries |-> <<"datagrip", "datagrip-eap">>],
       [cls |-> "JetBrainsIde", name |-> "DataSpell", icon |-> "dataspell.svg",
        config_dir_prefixes |-> <<Prefix("JetBrains", S_DataSpell)>>,
        binaries |-> <<"dataspell", "dataspell-eap">>],
       [cls |-> "JetBrainsIde", name |-> "GoLand", icon |-> "goland.svg",
        config_dir_prefixes |-> <<Prefix("JetBrains", S_GoLand)>>,
        binaries |-> <<"goland", "goland-eap">>],
       [cls |-> "JetBrainsIde", name |-> "IntelliJ IDEA", icon |-> "idea.svg",
        config_dir_prefixes |-> <<Prefix("JetBrains", S_IntelliJIdea),
                                  Prefix("JetBrains", S_Idea)>>,
        binaries |-> <<"idea", "idea.sh", "idea-ultimate", "idea-ce-eap", "idea-ue-eap",
                       "intellij-idea-ce", "intellij-idea-ce-eap",
                       "intellij-idea-ue-bundled-jre", "intellij-idea-ultimate-edition",
                       "intellij-idea-community-edition-jre",
                       "intellij-idea-community-edition-no-jre">>],
       [cls |-> "JetBrainsIde", name |-> "PhpStorm", icon |-> "phpstorm.svg",
        config_dir_prefixes |-> <<Prefix("JetBrains", S_PhpStorm)>>,
        binaries |-> <<"phpstorm", "phpstorm-eap">>],
       [cls |-> "JetBrainsIde", name |-> "PyCharm", icon |-> "pycharm.svg",
        config_dir_prefixes |-> <<Prefix("JetBrains", S_PyCharm)>>,
        binaries |-> <<"charm", "pycharm", "pycharm-eap", "pycharm-professional">>],
       [cls |-> "Rider", name |-> "Rider", icon |-> "rider.svg",
        config_dir_prefixes |-> <<Prefix("JetBrains", S_Rider)>>,
        binaries |-> <<"rider", "rider-eap">>],
       [cls |-> "JetBrainsIde", name |-> "RubyMine", icon |-> "rubymine.svg",
        config_dir_prefixes |-> <<Prefix("JetBrains", S_RubyMine)>>,
        binaries |-> <<"rubymine", "rubymine-eap", "jetbrains-rubymine",
                       "jetbrains-rubymine-eap">>],
       [cls |-> "JetBrainsIde", name |-> "RustRover", icon |-> "rustrover.svg",
        config_dir_prefixes |-> <<Prefix("JetBrains", S_RustRover)>>,
        binaries |-> <<"rustrover", "rustrover-eap">>],
       [cls |-> "JetBrainsIde", name |-> "WebStorm", icon |-> "webstorm.svg",
        config_dir_prefixes |-> <<Prefix("JetBrains", S_WebStorm)>>,
        binaries |-> <<"webstorm", "webstorm-eap">>],
       [cls |-> "JetBrainsIde", name |-> "Writerside", icon |-> "writerside.svg",
        config_dir_prefixes |-> <<Prefix("JetBrains", S_Writerside)>>,
        binaries |-> <<"writerside", "writerside-eap">>] >>

AllBinaries == UNION {{Table[i].binaries[j] : j \in DOMAIN Table[i].binaries} : i \in DOMAIN Table}

\* shutil.which(binary), against the host's command lookup `found`.
which(binary, found) == binary \in found

\* _find_binary mutated: the last resolvable candidate instead of the first.
RECURSIVE FindBinaryLast(_, _)
FindBinaryLast(binaries, found) ==
    IF binaries = <<>> THEN None
    ELSE IF which(binaries[Len(binaries)], found) THEN binaries[Len(binaries)]
    ELSE FindBinaryLast(SubSeq(binaries, 1, Len(binaries) - 1), found)

\* JetBrainsIde._find_binary: the first candidate which() finds, else None.
RECURSIVE _find_binary(_, _)
_find_binary(binaries, found) ==
    IF binaries = <<>> THEN None
    ELSE IF which(Head(binaries), found) THEN Head(binaries)
    ELSE _find_binary(Tail(binaries), found)

\* JetBrainsIde.__init__ (Rider inherits it).
JetBrainsIde(row, found) ==
    [cls |-> row.cls, name |-> row.name, icon |-> row.icon,
     config_dir_prefixes |-> row.config_dir_prefixes,
     binary |-> _find_binary(row.binaries, found)]

\* JetBrainsIde.get_editors: construct every table row, keep those with a binary.
get_editors(found) ==
    LET all == [i \in DOMAIN Table |-> JetBrainsIde(Table[i], found)]
    IN  SelectSeq(all, LAMBDA e : e.binary # None)

\* ------------------------------------------------------------- file system
HomeDir == <<"home", "u">>          \* str(Path.home()), as path segments
UserHome == "$USER_HOME$"

\* str.replace("$USER_HOME$", str(Path.home())) on a path string.
RECURSIVE ReplaceUserHome(_)
ReplaceUserHome(s) ==
    IF s = <<>> THEN <<>>
    ELSE (IF Head(s) = UserHome THEN HomeDir ELSE <<Head(s)>>) \o ReplaceUserHome(Tail(s))

\* Path(project_path).name: the final segment, "" for the empty path.
PathName(p) == IF p = <<>> THEN <<>> ELSE <<p[Len(p)]>>

ImlSuffix == ".iml"

\* file.name.replace(".iml", ""): every occurrence is removed.
StripIml(fileName) == SelectSeq(fileName, LAMBDA t : t # ImlSuffix)

\* Path(project_path + "/.idea").glob("*.iml"), in directory-listing order.
GlobIml(project_path) == IF project_path \in DOMAIN iml THEN iml[project_path] ELSE <<>>

\* Path(project.path).exists()
PathExists(p) == p \in exists

\* An optional string: Python's None or a str.
NoneStr == [some |-> FALSE, v |-> <<>>]
Some(s) == [some |-> TRUE, v |-> s]

Digits == {"0", "1", "2", "3", "4", "5", "6", "7", "8", "9"}
DigitVal(c) == Ord(c) - Ord("0")

RECURSIVE DecVal(_)
DecVal(s) == IF s = <<>> THEN 0 ELSE 10 * DecVal(SubSeq(s, 1, Len(s) - 1)) + DigitVal(s[Len(s)])

\* int(x): TypeError for None, ValueError for "" or a non-digit, else the number.
PyInt(x) ==
    IF ~x.some THEN [exc |-> "TypeError", v |-> 0]
    ELSE IF x.v = <<>> \/ \E i \in DOMAIN x.v : x.v[i] \notin Digits
         THEN [exc |-> "ValueError", v |-> 0]
    ELSE [exc |-> None, v |-> DecVal(x.v)]

\* "%s" % n for a non-negative int.
RECURSIVE IntToStr(_)
IntToStr(n) ==
    IF n < 10 THEN <<Alphabet[Ord("0") + n]>>
    ELSE IntToStr(n \div 10) \o <<Alphabet[Ord("0") + (n % 10)]>>

\* The <option name='projectOpenTimestamp'> of an entry.
TsNoTag == [tag |-> FALSE, value |-> NoneStr]      \* no such option element
TsNoAttr == [tag |-> TRUE, value |-> NoneStr]      \* the element has no value attribute
TsValue(s) == [tag |-> TRUE, value |-> Some(s)]

\* An <entry> element; key is its key attribute (None: the attribute is absent).
Entry(key, ts) == [key |-> key, ts |-> ts]

\* Content of a config directory, as far as the parser looks at it.
NoDir == [kind |-> "nodir", file |-> "-", component |-> "-", entries |-> <<>>]
NoFile == [kind |-> "nofile", file |-> "-", component |-> "-", entries |-> <<>>]
Malformed(file) == [kind |-> "malformed", file |-> file, component |-> "-", entries |-> <<>>]
Xml(file, component, entries) ==
    [kind |-> "xml", file |-> file, component |-> component, entries |-> entries]

ConfigDir(parent, name) == [parent |-> parent, name |-> name]

\* ------------------------------------------------------------------ parser
\* ElementTree.parse(file).getroot().findall(".//component[@name=C]//entry[@key]")
ReadEntries(config_dir, file, component) ==
    LET c == cfg[config_dir]
    IN  IF c.kind \in {"nodir", "nofile"} \/ c.file # file
        THEN [exc |-> "FileNotFoundError", entries |-> <<>>]
        ELSE IF c.kind = "malformed" THEN [exc |-> "ParseError", entries |-> <<>>]
        ELSE [exc |-> None,
              entries |-> IF c.component = component
                          THEN SelectSeq(c.entries, LAMBDA e : e.key.some)
                          ELSE <<>>]

\* JetBrainsIde._get_recent_projects_entries
_get_recent_projects_entries(self, config_dir) ==
    ReadEntries(config_dir, "recentProjects.xml", "RecentProjectsManager")

\* Rider._get_recent_projects_entries
Rider_get_recent_projects_entries(self, config_dir) ==
    ReadEntries(config_dir, "recentSolutions.xml", "RiderRecentProjectsManager")

\* Method dispatch of self._get_recent_projects_entries.
GetRecentProjectsEntries(self, config_dir) ==
    IF self.cls = "Rider" THEN Rider_get_recent_projects_entries(self, config_dir)
    ELSE _get_recent_projects_entries(self, config_dir)

Project(name, path, last_opened, owner) ==
    [name |-> name, path |-> path, last_opened |-> last_opened, ide |-> owner]

\* The `for file in files` loop of _parse_project_entries (lines 76-79).
RECURSIVE ImlLoop(_, _, _, _, _, _)
ImlLoop(self, files, project_name, project_path, last_opened, projects) ==
    IF files = <<>> THEN [exc |-> None, projects |-> projects]
    ELSE LET name == StripIml(Head(files))
         IN  IF name # project_name
             THEN LET n == PyInt(last_opened)
                  IN  IF n.exc # None THEN [exc |-> n.exc, projects |-> <<>>]
                      ELSE ImlLoop(self, Tail(files), project_name, project_path, last_opened,
                                   Append(projects, Project(name, project_path, n.v, self)))
             ELSE ImlLoop(self, Tail(files), project_name, project_path, last_opened, projects)

\* The `for entry in project_entries` loop of _parse_project_entries (lines 66-79).
RECURSIVE EntryLoop(_, _, _)
EntryLoop(self, project_entries, projects) ==
    IF project_entries = <<>> THEN [exc |-> None, projects |-> projects]
    ELSE LET entry == Head(project_entries)
             project_path == ReplaceUserHome(entry.key.v)
             project_name == PathName(project_path)
             files == GlobIml(project_path)
             tag_opened == entry.ts
             last_opened == IF tag_opened.tag /\ tag_opened.value.some
                            THEN tag_opened.value ELSE NoneStr
             truthy == project_path # <<>> /\ last_opened.some /\ last_opened.v # <<>>
             n == PyInt(last_opened)
         IN  IF truthy /\ n.exc # None THEN [exc |-> n.exc, projects |-> <<>>]
             ELSE LET withDir == IF truthy
                                 THEN Append(projects,
                                             Project(project_name, project_path, n.v, self))
                                 ELSE projects
                      r == ImlLoop(self, files, project_name, project_path, last_opened, withDir)
                  IN  IF r.exc # None THEN r
                      ELSE EntryLoop(self, Tail(project_entries), r.projects)

\* JetBrainsIde._parse_project_entries: the projects, or the exception int() raised.
_parse_project_entries(self, project_entries) == EntryLoop(self, project_entries, <<>>)

\* list(self._config_dir().glob(f"{config_dir_prefix}*/")): the directories under
\* <config root>/<parent> whose name starts with the stem.
GlobConfigDirs(config_dir_prefix) ==
    {d \in DOMAIN cfg : /\ cfg[d].kind # "nodir"
                        /\ d.parent = config_dir_prefix.parent
                        /\ StartsWith(d.name, config_dir_prefix.stem)}

\* Path.__lt__ among the results of one glob (they share the parent directory).
PathLess(a, b) == StrLess(a.name, b.name)

\* sorted(dirs)
RECURSIVE sorted(_)
sorted(dirs) ==
    IF dirs = {} THEN <<>>
    ELSE LET least == CHOOSE d \in dirs : \A o \in dirs \ {d} : PathLess(d, o)
         IN  <<least>> \o sorted(dirs \ {least})

\* sorted(dirs)[-1] mutated: index 0.
SortedFirst(dirs) == sorted(dirs)[1]

\* sorted(dirs)[-1]
SortedLast(dirs) == sorted(dirs)[Len(sorted(dirs))]

\* The `for config_dir_prefix in self.config_dir_prefixes` loop of list_projects.
\* read: the config directories whose recent-projects file the call opened.
RECURSIVE PrefixLoop(_, _)
PrefixLoop(self, prefixes) ==
    IF prefixes = <<>> THEN [exc |-> None, projects |-> <<>>, read |-> {}]
    ELSE LET dirs == GlobConfigDirs(Head(prefixes))
         IN  IF dirs # {}
             THEN LET chosen == SortedLast(dirs)
                      recent == GetRecentProjectsEntries(self, chosen)
                  IN  IF recent.exc \in {"ParseError", "FileNotFoundError"}
                      THEN [exc |-> None, projects |-> <<>>, read |-> {chosen}]
                      ELSE LET r == _parse_project_entries(self, recent.entries)
                           IN  [exc |-> r.exc, projects |-> r.projects, read |-> {chosen}]
             ELSE PrefixLoop(self, Tail(prefixes))

\* JetBrainsIde.list_projects
list_projects(self) == PrefixLoop(self, self.config_dir_prefixes)

\* ------------------------------------------------------------------ plugin
\* Plugin.__init__, lines 194-196: readConfig('match_path', bool), None -> False.
NoStored == [set |-> FALSE, v |-> FALSE]
Stored(v) == [set |-> TRUE, v |-> v]
ReadMatchPath(stored) == IF stored.set THEN stored.v ELSE FALSE

\* The host matcher's tolerance when fuzzy matching is on: query word, matched word.
FuzzyPairs == {<<"apq", "app">>}

WordMatch(q, w, fz) == q = w \/ (fz /\ <<q, w>> \in FuzzyPairs)

\* One string against the query: every query word matches some word of the string.
MatchString(query, s, fz) ==
    \A i \in DOMAIN query : \E j \in DOMAIN s : WordMatch(query[i], s[j], fz)

\* Matcher(ctx.query, MatchConfig(fuzzy=fz)).match(*strings)
MatcherMatch(query, fz, strings) ==
    \E k \in DOMAIN strings : MatchString(query, strings[k], fz)

\* The nested comprehension of Plugin._get_projects; an exception of
\* list_projects leaves the comprehension.
RECURSIVE EditorLoop(_, _)
EditorLoop(eds, acc) ==
    IF eds = <<>> THEN [exc |-> None, projects |-> acc]
    ELSE LET r == list_projects(Head(eds))
         IN  IF r.exc # None THEN [exc |-> r.exc, projects |-> <<>>]
             ELSE EditorLoop(Tail(eds),
                             acc \o SelectSeq(r.projects, LAMBDA p : PathExists(p.path)))

\* Plugin._get_projects
_get_projects == EditorLoop(editors, <<>>)

\* The argument list of matcher.match on line 232.
MatchFields(project, flag) ==
    IF flag THEN <<project.name, project.path>> ELSE <<project.name>>

\* list.sort(key=lambda p: p.last_opened, reverse=True): stable, descending.
RECURSIVE InsertDesc(_, _)
InsertDesc(sortedSeq, p) ==
    IF sortedSeq = <<>> THEN <<p>>
    ELSE IF Head(sortedSeq).last_opened >= p.last_opened
         THEN <<Head(sortedSeq)>> \o InsertDesc(Tail(sortedSeq), p)
         ELSE <<p>> \o sortedSeq

RECURSIVE SortDesc(_)
SortDesc(ps) ==
    IF ps = <<>> THEN <<>>
    ELSE InsertDesc(SortDesc(SubSeq(ps, 1, Len(ps) - 1)), ps[Len(ps)])

\* Plugin._make_item(editor, project): a staticmethod of two parameters.
_make_item(editor, project) ==
    [id |-> <<editor.binary, "-">> \o project.path \o <<"-">> \o IntToStr(project.last_opened),
     text |-> project.name,
     subtext |-> project.path,
     input_action_text |-> project.name,
     icon |-> editor.icon,
     actions |-> << [id |-> "Open",
                     text |-> <<"Open in", editor.name>>,
                     runDetachedProcess |-> <<editor.binary, project.path>>] >>]

\* A call of the staticmethod through the instance binds no self: the positional
\* arguments must be exactly (editor, project), else Python raises TypeError.
Call_make_item(args) ==
    IF Len(args) = 2 THEN [exc |-> None, items |-> <<_make_item(args[1], args[2])>>]
    ELSE [exc |-> "TypeError", items |-> <<>>]

\* The comprehension on line 238: [self._make_item(project) for project in matches]
RECURSIVE ItemLoop(_, _)
ItemLoop(ms, acc) ==
    IF ms = <<>> THEN [exc |-> None, items |-> acc]
    ELSE LET r == Call_make_item(<<Head(ms)>>)
         IN  IF r.exc # None THEN r
             ELSE ItemLoop(Tail(ms), acc \o r.items)

IdleRet == [state |-> "idle", exc |-> None, items |-> <<>>, query |-> <<>>]
IdleCall == [state |-> "idle", exc |-> None, projects |-> <<>>, read |-> {}]
NoIde == [cls |-> "-", name |-> "-", icon |-> "-", config_dir_prefixes |-> <<>>,
          binary |-> None]

\* --------------------------------------------------------------- universes
Str2023_3 == <<"2","0","2","3",".","3">>
Str2024_1 == <<"2","0","2","4",".","1">>
D_IJ23 == ConfigDir("JetBrains", S_IntelliJIdea \o Str2023_3)
D_IJ24 == ConfigDir("JetBrains", S_IntelliJIdea \o Str2024_1)
D_IC24 == ConfigDir("JetBrains", S_Idea \o <<"I","C">> \o Str2024_1)
D_PC24 == ConfigDir("JetBrains", S_PyCharm \o Str2024_1)
D_PCCE == ConfigDir("JetBrains", S_PyCharm \o <<"C","E">> \o Str2023_3)
D_RD24 == ConfigDir("JetBrains", S_Rider \o Str2024_1)
DirUniverse == {D_IJ23, D_IJ24, D_IC24, D_PC24, D_PCCE, D_RD24}

K_app == <<UserHome, "work", "app">>    \* key="$USER_HOME$/work/app"
K_lib == <<"srv", "lib">>               \* key="/srv/lib"
P_app == HomeDir \o <<"work", "app">>
P_lib == <<"srv", "lib">>
PathUniverse == {P_app, P_lib}

F_app == <<"app", ImlSuffix>>
F_foo == <<"foo", ImlSuffix>>
F_core == <<"core", ImlSuffix>>
NoIml == [p \in PathUniverse |-> <<>>]

\* Sequences over S of length at most n.
RECURSIVE BSeq(_, _)
BSeq(S, n) ==
    IF n = 0 THEN {<<>>}
    ELSE LET shorter == BSeq(S, n - 1)
         IN  shorter \cup {Append(q, x) : q \in {r \in shorter : Len(r) = n - 1}, x \in S}

RP == "recentProjects.xml"
RS == "recentSolutions.xml"
RPM == "RecentProjectsManager"
RRPM == "RiderRecentProjectsManager"

\* ------------------------------------------------- SpecEditors: the registry
RECURSIVE SmallSets(_)
SmallSets(k) ==
    IF k = 0 THEN {{}}
    ELSE LET smaller == SmallSets(k - 1)
         IN  smaller \cup {s \cup {b} : s \in smaller, b \in AllBinaries}

\* Hosts with at most MaxDelta of the known names, or all but at most MaxDelta.
InstalledSets == SmallSets(MaxDelta) \cup {AllBinaries \ s : s \in SmallSets(MaxDelta)}

InitEditors ==
    /\ phase = "startup"
    /\ installed \in InstalledSets
    /\ store \in {NoStored, Stored(FALSE), Stored(TRUE)}
    /\ editors = <<>>
    /\ match_path = FALSE
    /\ fuzzy = FALSE
    /\ cfg = [d \in DirUniverse |-> NoDir]
    /\ exists = {}
    /\ iml = NoIml
    /\ ret = IdleRet
    /\ matches = <<>>
    /\ ide = NoIde
    /\ lp = IdleCall
    /\ entriesIn = <<>>
    /\ parsed = IdleCall

\* Plugin.__init__
Startup ==
    /\ phase = "startup"
    /\ phase' = "ready"
    /\ fuzzy' = FALSE
    /\ match_path' = ReadMatchPath(store)
    /\ editors' = get_editors(installed)
    /\ UNCHANGED <<installed, store, cfg, exists, iml, ret, matches, ide, lp, entriesIn, parsed>>

NextEditors == Startup

SpecEditors == InitEditors /\ [][NextEditors]_vars

\* ------------------------------------- SpecParse: _parse_project_entries
TsPoolP == {TsNoTag, TsNoAttr, TsValue(<<>>), TsValue(<<"x">>), TsValue(<<"0">>),
            TsValue(<<"7">>), TsValue(<<"1", "2">>)}
EntryPoolP == {Entry(Some(k), t) : k \in {K_app, K_lib, <<>>}, t \in TsPoolP}
ImlStatesP ==
    {[p \in PathUniverse |-> IF p = P_app THEN a ELSE l] :
        a \in {<<>>, <<F_app>>, <<F_app, F_foo>>}, l \in {<<>>, <<F_core>>}}

InitParse ==
    /\ phase = "ready"
    /\ installed = {"idea"}
    /\ store = NoStored
    /\ editors = get_editors(installed)
    /\ match_path = FALSE
    /\ fuzzy = FALSE
    /\ cfg = [d \in DirUniverse |-> NoDir]
    /\ exists = PathUniverse
    /\ iml \in ImlStatesP
    /\ ret = IdleRet
    /\ matches = <<>>
    /\ ide = editors[1]
    /\ lp = IdleCall
    /\ entriesIn \in BSeq(EntryPoolP, MaxParseEntries)
    /\ parsed = IdleCall

\* One call ide._parse_project_entries(entriesIn).
ParseEntries ==
    /\ parsed.state = "idle"
    /\ LET r == _parse_project_entries(ide, entriesIn)
       IN  parsed' = [state |-> IF r.exc = None THEN "returned" ELSE "raised",
                      exc |-> r.exc, projects |-> r.projects, read |-> {}]
    /\ UNCHANGED <<phase, installed, editors, match_path, store, fuzzy, cfg, exists,
                   iml, ret, matches, ide, lp, entriesIn>>

NextParse == ParseEntries

SpecParse == InitParse /\ [][NextParse]_vars

\* ------------------------------------------------- SpecList: list_projects
EntryPoolL == {Entry(Some(K_app), TsNoTag), Entry(Some(K_lib), TsValue(<<"2">>))}

ContentsFor(d) ==
    LET docs == BSeq(EntryPoolL, MaxEntries)
    IN  {NoFile, Malformed(RP)} \cup {Xml(RP, RPM, es) : es \in docs}
        \cup (IF d = D_RD24
              THEN {Malformed(RS)} \cup {Xml(RS, RRPM, es) : es \in docs}
              ELSE {})

ContentsL == UNION {ContentsFor(d) : d \in DirUniverse}

InitList ==
    /\ phase = "ready"
    /\ installed = {"idea", "charm", "rider"}
    /\ store = NoStored
    /\ editors = get_editors(installed)
    /\ match_path = FALSE
    /\ fuzzy = FALSE
    /\ \E S \in {T \in SUBSET DirUniverse : Cardinality(T) <= MaxDirs} :
         \E g \in [S -> ContentsL] :
            /\ \A d \in S : g[d] \in ContentsFor(d)
            /\ cfg = [d \in DirUniverse |-> IF d \in S THEN g[d] ELSE NoDir]
    /\ exists = PathUniverse
    /\ iml \in {NoIml, [NoIml EXCEPT ![P_app] = <<F_app, F_foo>>]}
    /\ ret = IdleRet
    /\ matches = <<>>
    /\ ide = NoIde
    /\ lp = IdleCall
    /\ entriesIn = <<>>
    /\ parsed = IdleCall

\* One call e.list_projects() on an editor of the active registry.
ListProjects(i) ==
    /\ lp.state = "idle"
    /\ ide' = editors[i]
    /\ LET r == list_projects(editors[i])
       IN  lp' = [state |-> IF r.exc = None THEN "returned" ELSE "raised",
                  exc |-> r.exc, projects |-> r.projects, read |-> r.read]
    /\ UNCHANGED <<phase, installed, editors, match_path, store, fuzzy, cfg, exists,
                   iml, ret, matches, entriesIn, parsed>>

NextList == \E i \in DOMAIN editors : ListProjects(i)

SpecList == InitList /\ [][NextList]_vars

\* ------------------------------------------------------- Spec: the plugin
InstalledChoices == {{"idea-ultimate", "charm", "rider"}}
DirsQ == {D_IJ24, D_PC24}
\* The entries an IDE may record in its recent-projects file.
EntryPoolQ(d) ==
    IF d = D_IJ24
    THEN {Entry(Some(K_app), TsValue(<<"1">>)), Entry(Some(K_lib), TsValue(<<"3">>)),
          Entry(Some(K_app), TsNoTag)}
    ELSE {Entry(Some(K_lib), TsValue(<<"2">>)), Entry(Some(K_app), TsValue(<<"1">>))}
ImlChoicesQ(p) == IF p = P_app THEN {<<>>, <<F_app, F_foo>>} ELSE {<<>>}
Queries == {<<>>, <<"app">>, <<"work">>, <<"apq">>}

Init ==
    /\ phase = "ready"
    /\ installed \in InstalledChoices
    /\ store \in {NoStored, Stored(FALSE), Stored(TRUE)}
    /\ editors = get_editors(installed)
    /\ match_path = ReadMatchPath(store)
    /\ fuzzy = FALSE
    /\ cfg = [d \in DirUniverse |-> IF d \in DirsQ THEN NoFile ELSE NoDir]
    /\ exists = {}
    /\ iml = NoIml
    /\ ret = IdleRet
    /\ matches = <<>>
    /\ ide = NoIde
    /\ lp = IdleCall
    /\ entriesIn = <<>>
    /\ parsed = IdleCall

\* Plugin.items(ctx) with ctx.query = q, run to the end of the generator.
Items(q) ==
    /\ phase = "ready"
    /\ LET got == _get_projects
           ms == SortDesc(SelectSeq(got.projects,
                     LAMBDA p : MatcherMatch(q, fuzzy, MatchFields(p, match_path))))
           made == ItemLoop(ms, <<>>)
       IN  IF got.exc # None
           THEN /\ matches' = <<>>
                /\ ret' = [state |-> "raised", exc |-> got.exc, items |-> <<>>, query |-> q]
           ELSE /\ matches' = ms
                /\ ret' = [state |-> IF made.exc = None THEN "returned" ELSE "raised",
                           exc |-> made.exc, items |-> made.items, query |-> q]
    /\ UNCHANGED <<phase, installed, editors, match_path, store, fuzzy, cfg, exists,
                   iml, ide, lp, entriesIn, parsed>>

\* The match_path property setter.
SetMatchPath(value) ==
    /\ phase = "ready"
    /\ match_path' = value
    /\ store' = Stored(value)
    /\ ret' = IdleRet
    /\ matches' = <<>>
    /\ UNCHANGED <<phase, installed, editors, fuzzy, cfg, exists, iml, ide, lp,
                   entriesIn, parsed>>

\* Plugin.setFuzzyMatching(enabled)
SetFuzzyMatching(enabled) ==
    /\ phase = "ready"
    /\ fuzzy' = enabled
    /\ ret' = IdleRet
    /\ matches' = <<>>
    /\ UNCHANGED <<phase, installed, editors, match_path, store, cfg, exists, iml, ide,
                   lp, entriesIn, parsed>>

\* What one rewrite turns a recent-projects file into: deleted, corrupted, emptied,
\* or one more entry recorded.
Rewrites(d, c) ==
    LET es == IF c.kind = "xml" THEN c.entries ELSE <<>>
    IN  {NoFile, Malformed(RP), Xml(RP, RPM, <<>>)}
        \cup {Xml(RP, RPM, Append(es, e)) : e \in IF Len(es) < MaxQueryEntries THEN EntryPoolQ(d) ELSE {}}

\* An IDE rewrites (or the user deletes or corrupts) a recent-projects file.
WriteRecent(d, c) ==
    /\ cfg[d] # c
    /\ cfg' = [cfg EXCEPT ![d] = c]
    /\ ret' = IdleRet
    /\ matches' = <<>>
    /\ UNCHANGED <<phase, installed, editors, match_path, store, fuzzy, exists, iml, ide,
                   lp, entriesIn, parsed>>

\* A project directory is removed, with its .idea directory.
RemovePath(p) ==
    /\ p \in exists
    /\ exists' = exists \ {p}
    /\ iml' = [iml EXCEPT ![p] = <<>>]
    /\ ret' = IdleRet
    /\ matches' = <<>>
    /\ UNCHANGED <<phase, installed, editors, match_path, store, fuzzy, cfg, ide, lp,
                   entriesIn, parsed>>

\* A project directory is created, with the module files of its .idea directory.
CreatePath(p, listing) ==
    /\ p \notin exists
    /\ exists' = exists \cup {p}
    /\ iml' = [iml EXCEPT ![p] = listing]
    /\ ret' = IdleRet
    /\ matches' = <<>>
    /\ UNCHANGED <<phase, installed, editors, match_path, store, fuzzy, cfg, ide, lp,
                   entriesIn, parsed>>

Next ==
    \/ \E q \in Queries : Items(q)
    \/ \E value \in BOOLEAN : SetMatchPath(value)
    \/ \E enabled \in BOOLEAN : SetFuzzyMatching(enabled)
    \/ \E d \in DirsQ : \E c \in Rewrites(d, cfg[d]) : WriteRecent(d, c)
    \/ \E p \in PathUniverse : RemovePath(p)
    \/ \E p \in PathUniverse : \E listing \in ImlChoicesQ(p) : CreatePath(p, listing)

Spec == Init /\ [][Next]_vars

\* ================================================================== claims
\* Helpers of the claims' statements (they do not use the parser's own loops).
Resolves(row) == \E j \in DOMAIN row.binaries : row.binaries[j] \in installed

FirstResolvable(row, b) ==
    \E j \in DOMAIN row.binaries :
        /\ row.binaries[j] = b
        /\ b \in installed
        /\ \A i \in 1..(j - 1) : row.binaries[i] \notin installed

\* C7: the active registry holds exactly the table variants with a resolvable
\* candidate, in table order; each retained variant's binary is non-null and is the
\* first resolvable candidate in declared order; the registry has the table's size
\* if and only if every variant resolves.
C7_RegistryExact ==
    phase = "ready" =>
        LET keep == SelectSeq(Table, Resolves)
        IN  /\ Len(editors) = Len(keep)
            /\ \A k \in DOMAIN editors :
                  /\ k \in DOMAIN keep
                  /\ editors[k].name = keep[k].name
                  /\ editors[k].binary # None
                  /\ FirstResolvable(keep[k], editors[k].binary)
            /\ (Len(editors) = Len(Table)) <=> (\A i \in DOMAIN Table : Resolves(Table[i]))

\* C7 witness: a host where some but not all variants resolve, and one retained
\* variant resolved through a candidate that is not its first.
C7_Witness ==
    /\ phase = "ready"
    /\ Len(editors) > 0
    /\ Len(editors) < Len(Table)
    /\ \E k \in DOMAIN editors : \E i \in DOMAIN Table :
          /\ Table[i].name = editors[k].name
          /\ Table[i].binaries[1] # editors[k].binary

\* The registry reaches the table's size on some host (the equality case of C7).
C7_FullRegistry == phase = "ready" /\ Len(editors) = Len(Table)

\* The directories a prefix matches, and the one list_projects is to read.
PrefixMatches(d, pre) ==
    cfg[d].kind # "nodir" /\ d.parent = pre.parent /\ StartsWith(d.name, pre.stem)

ExpectedDirs(e) ==
    {d \in DirUniverse :
        \E k \in DOMAIN e.config_dir_prefixes :
            /\ PrefixMatches(d, e.config_dir_prefixes[k])
            /\ \A j \in 1..(k - 1) :
                  \A o \in DirUniverse : ~PrefixMatches(o, e.config_dir_prefixes[j])
            /\ \A o \in DirUniverse :
                  PrefixMatches(o, e.config_dir_prefixes[k]) => (o = d \/ StrLess(o.name, d.name))}

WantedFile(e) == IF e.cls = "Rider" THEN RS ELSE RP
WantedComponent(e) == IF e.cls = "Rider" THEN RRPM ELSE RPM

\* The recent-projects file of e in d is missing or malformed.
Unreadable(e, d) == cfg[d].kind \in {"nofile", "malformed"} \/ cfg[d].file # WantedFile(e)

\* The entries of e's recent-projects file in d.
EntriesOf(e, d) ==
    IF Unreadable(e, d) \/ cfg[d].component # WantedComponent(e) THEN <<>>
    ELSE SelectSeq(cfg[d].entries, LAMBDA en : en.key.some)

\* C8: list_projects reads exactly one config directory per call, the
\* lexicographically-last one among those matching the first prefix that matches
\* any directory; it reads none when no prefix matches, and the result is then
\* empty; the result is empty when the chosen directory's file is missing or
\* malformed (no later prefix is tried); the outcome is that of the chosen
\* directory's entries alone.
C8_OneDirectory ==
    lp.state # "idle" =>
        /\ lp.read = ExpectedDirs(ide)
        /\ Cardinality(lp.read) <= 1
        /\ (lp.read = {} => lp.state = "returned" /\ lp.projects = <<>>)
        /\ \A d \in lp.read :
              /\ Unreadable(ide, d) => (lp.state = "returned" /\ lp.projects = <<>>)
              /\ LET alone == _parse_project_entries(ide, EntriesOf(ide, d))
                 IN  lp.exc = alone.exc /\ lp.projects = alone.projects

\* C8 witness: IntelliJ IDEA's first prefix matches a directory whose file is
\* missing or malformed while a directory of its second prefix holds an entry; the
\* call read the first prefix's directory only and returned the empty list.
C8_Witness ==
    /\ lp.state = "returned"
    /\ ide.name = "IntelliJ IDEA"
    /\ cfg[D_IC24].kind = "xml" /\ cfg[D_IC24].entries # <<>>
    /\ \E d \in {D_IJ23, D_IJ24} : lp.read = {d} /\ Unreadable(ide, d)
    /\ lp.projects = <<>>

\* Two directories of one prefix: the lexicographically-last one was read.
C8_TwoOfOnePrefix ==
    /\ lp.state = "returned"
    /\ cfg[D_PC24].kind = "xml" /\ cfg[D_PCCE].kind = "xml"
    /\ lp.read = {D_PCCE}
    /\ lp.projects # <<>>

\* C1: list_projects never raises to its caller: every call returns a list, which
\* is empty when the recent-projects file is missing or malformed.
C1_NeverRaises ==
    lp.state # "idle" =>
        /\ lp.state = "returned"
        /\ \A d \in lp.read : Unreadable(ide, d) => lp.projects = <<>>

\* An entry whose projectOpenTimestamp option is absent or has no value attribute.
NoTimestamp(en) == ~(en.ts.tag /\ en.ts.value.some)

\* An entry whose timestamp value is a non-empty string of digits.
NumericTimestamp(en) ==
    /\ en.ts.tag /\ en.ts.value.some /\ en.ts.value.v # <<>>
    /\ \A i \in DOMAIN en.ts.value.v : en.ts.value.v[i] \in Digits

\* C2: an entry without a timestamp is dropped entirely by _parse_project_entries:
\* when every other entry carries a numeric timestamp, the call returns exactly the
\* Projects of those other entries, and none with the dropped entry's path unless
\* another entry lists that path.
C2_DroppedEntirely ==
    (/\ parsed.state # "idle"
     /\ \A i \in DOMAIN entriesIn : NoTimestamp(entriesIn[i]) \/ NumericTimestamp(entriesIn[i]))
    => /\ parsed.state = "returned"
       /\ parsed.projects =
             _parse_project_entries(ide, SelectSeq(entriesIn, NumericTimestamp)).projects
       /\ \A k \in DOMAIN parsed.projects :
             \E i \in DOMAIN entriesIn :
                /\ NumericTimestamp(entriesIn[i])
                /\ ReplaceUserHome(entriesIn[i].key.v) = parsed.projects[k].path

\* The projects a query is to show: those of every active editor's current
\* recent-projects file whose path exists and which the query matches on the
\* field set the flag selects.
Listed == UNION {{list_projects(editors[i]).projects[k] :
                     k \in DOMAIN list_projects(editors[i]).projects} : i \in DOMAIN editors}

Wanted(q) ==
    {p \in Listed :
        /\ p.path \in exists
        /\ MatcherMatch(q, fuzzy, IF match_path THEN <<p.name, p.path>> ELSE <<p.name>>)}

\* A query was answered and no list_projects call raised in it.
Answered == ret.state # "idle" /\ \A i \in DOMAIN editors : list_projects(editors[i]).exc = None

Shows(item, p) ==
    /\ item.text = p.name
    /\ item.subtext = p.path
    /\ Len(item.actions) = 1
    /\ item.actions[1].runDetachedProcess = <<p.ide.binary, p.path>>

\* C3: every query produces exactly one display entry per matched Project, with
\* text = name, subtext = path and exactly one action, which launches the owning
\* IDE's executable with the project path as its sole argument.
C3_OneEntryPerMatch ==
    Answered =>
        /\ ret.state = "returned"
        /\ Len(ret.items) = Len(matches)
        /\ \A k \in DOMAIN matches : k \in DOMAIN ret.items /\ Shows(ret.items[k], matches[k])
        /\ \A p \in Wanted(ret.query) : \E k \in DOMAIN matches : matches[k] = p

\* C4: every Project in a query's result has a path that exists at the time of the
\* query, and the result is recomputed from the current file system: a listed,
\* matching project is in the result exactly when its path exists now.
C4_ExistsAtQueryTime ==
    Answered =>
        /\ ret.state = "returned"
        /\ \A k \in DOMAIN ret.items : ret.items[k].subtext \in exists
        /\ \A p \in Wanted(ret.query) : \E k \in DOMAIN ret.items : Shows(ret.items[k], p)

\* C5: the matched projects are returned ordered by descending last_opened across
\* all IDE variants together, and the result is a permutation of exactly the
\* existing projects that matched.
C5_DescendingAcrossIdes ==
    Answered =>
        /\ ret.state = "returned"
        /\ Len(ret.items) = Len(matches)
        /\ \A k \in DOMAIN matches : k \in DOMAIN ret.items /\ Shows(ret.items[k], matches[k])
        /\ \A k \in 1..(Len(matches) - 1) : matches[k].last_opened >= matches[k + 1].last_opened
        /\ \A p \in Wanted(ret.query) :
              Cardinality({k \in DOMAIN matches : matches[k] = p}) >= 1
        /\ \A k \in DOMAIN matches : matches[k] \in Wanted(ret.query)

\* C6: a query matches on the field set of the most recently set flag ({name} when
\* false, {name, path} when true): the result shows exactly the existing projects
\* matching on that field set; and after every set the persisted value equals the
\* in-memory flag.
C6_FlagSelectsFields ==
    /\ store.set => store.v = match_path
    /\ ~store.set => match_path = FALSE
    /\ Answered =>
          /\ ret.state = "returned"
          /\ \A p \in Listed :
                (\E k \in DOMAIN ret.items : Shows(ret.items[k], p))
                <=> (/\ p.path \in exists
                     /\ MatcherMatch(ret.query, fuzzy, IF match_path THEN <<p.name, p.path>>
                                                        ELSE <<p.name>>))

\* Editor i's recent-projects file is malformed or missing in the directory it reads.
Failing(i) ==
    \E d \in list_projects(editors[i]).read : Unreadable(editors[i], d)

\* C9: when the recent-projects XML of one active variant is malformed or missing,
\* a query still returns every existing, matching project of every other variant.
C9_IsolatedFailure ==
    (Answered /\ \E i \in DOMAIN editors : Failing(i)) =>
        /\ ret.state = "returned"
        /\ \A p \in Wanted(ret.query) : \E k \in DOMAIN ret.items : Shows(ret.items[k], p)

\* C10: no two Projects surfaced together by one query get the same identity key
\* (the key _make_item builds from the owning IDE's executable name, the project
\* path and last_opened).
C10_DistinctKeys ==
    \A i, j \in DOMAIN matches :
        i # j => _make_item(matches[i].ide, matches[i]).id
                 # _make_item(matches[j].ide, matches[j]).id

\* ------------------------------------------------- what does hold of a query
\* The local list `matches` is sorted by descending last_opened, holds exactly the
\* wanted projects, and each of them exists.
MatchesSound ==
    Answered =>
        /\ \A k \in 1..(Len(matches) - 1) : matches[k].last_opened >= matches[k + 1].last_opened
        /\ {matches[k] : k \in DOMAIN matches} = Wanted(ret.query)
        /\ \A k \in DOMAIN matches : matches[k].path \in exists

\* Plugin.items returns only the empty batch: any match makes line 238 raise.
ItemsNeverShown ==
    /\ ret.items = <<>>
    /\ (Answered /\ matches # <<>>) => (ret.state = "raised" /\ ret.exc = "TypeError")
    /\ (Answered /\ matches = <<>>) => ret.state = "returned"

\* The setter keeps the store and the flag equal.
StoreAgrees == (store.set => store.v = match_path) /\ (~store.set => match_path = FALSE)

====
